---- MODULE Spec2Model ----
(***************************************************************************)
(* Model of the AI-CD orchestration core:                                  *)
(*   - the job state machine (packages/core/src/state-machine),            *)
(*   - the tenant-aware database client (packages/core/src/db),            *)
(*   - the tenant context (packages/core/src/context),                     *)
(*   - the stage workers and the job producer over the BullMQ queues        *)
(*     (apps/backend/src/workers, packages/core/src/queues).               *)
(* The specifications share the variables: SpecPure applies the pure       *)
(* transition predicates to every (state, event, state) input, SpecSM      *)
(* interleaves JobStateMachine.transition calls on the jobs table, SpecDb  *)
(* runs statements through the tenant-aware client on the repositories     *)
(* table, SpecWk runs the stage handlers under at-least-once delivery,     *)
(* worker crashes, external cancellation and queue retention, SpecFlow     *)
(* runs them with fair scheduling and neither crash nor cancellation.      *)
(***************************************************************************)
EXTENDS Integers, Sequences, FiniteSets, TLC

VARIABLES
    jobs,       \* jobs table: job id -> row [status, metadata] or NoRow
    calls,      \* one JobStateMachine.transition call per caller: its position and locals
    ncalls,     \* number of transition calls begun
    returned,   \* what the transition call that ended last returned or threw
    pin,        \* input of the pure predicates: [s, e, t]
    pout,       \* their results on pin, or NotApplied
    store,      \* AsyncLocalStorage of the running operation: stack of bound tenant ids
    repos,      \* repositories table: set of rows [id, tenantId, enabled]
    plans,      \* plans table (no tenant_id column): set of rows [id, tenantId, enabled]
    last,       \* the last statement run through the tenant-aware client and its outcome
    agent,      \* the IAgent implementation the workers were created with
    queues,     \* the four BullMQ queues: queue name -> set of messages
    runs,       \* handler invocations in progress: slot -> position and locals
    lastAdd,    \* the last queue.add(...) call: who added what, and whether it was collapsed
    delivered,  \* number of handler invocations begun, counted up to MaxDeliveries
    ops,        \* asynchronous operations: position, async context, what they bound
    verified,   \* the last verifyTenantOwnership call: entity, scope, outcome
    instances   \* queues.ts: the four instance slots, instances made and closed, closer

smVars   == <<jobs, calls, ncalls, returned>>
pureVars == <<pin, pout>>
dbVars   == <<store, repos, plans, last>>
wkVars   == <<agent, queues, runs, lastAdd, delivered>>
opVars   == <<ops, verified, instances>>
vars     == <<jobs, calls, ncalls, returned, pin, pout, store, repos, plans, last,
             agent, queues, runs, lastAdd, delivered, ops, verified, instances>>

----------------------------------------------------------------------------
(* Bounds *)
MaxCalls == 3     \* transition calls begun in one behaviour

JobIds  == {"job1"}
Callers == {"c1", "c2"}     \* concurrent callers of transition

----------------------------------------------------------------------------
(* job-states.ts: states, events, the two transition tables *)

JobState == {"QUEUED", "PLANNING", "CODING", "REVIEWING", "PR_OPEN",
             "COMPLETED", "FAILED", "CANCELLED"}

JobEvent == {"START_PLANNING", "PLAN_SUCCEEDED", "PLAN_FAILED",
             "START_CODING", "CODE_SUCCEEDED", "CODE_FAILED",
             "START_REVIEWING", "REVIEW_APPROVED", "REVIEW_REJECTED", "REVIEW_FAILED",
             "PR_OPENED", "PR_FAILED",
             "MARK_COMPLETED", "CANCEL", "FAIL"}

Null == "null"

\* mutant: a failed job may be queued again
VALID_TRANSITIONS_RetryFailed ==
    [s \in JobState |->
        CASE s = "QUEUED"    -> {"PLANNING", "CANCELLED", "FAILED"}
          [] s = "PLANNING"  -> {"CODING", "FAILED", "CANCELLED"}
          [] s = "CODING"    -> {"REVIEWING", "FAILED", "CANCELLED"}
          [] s = "REVIEWING" -> {"CODING", "PR_OPEN", "FAILED", "CANCELLED"}
          [] s = "PR_OPEN"   -> {"COMPLETED", "FAILED"}
          [] s = "COMPLETED" -> {}
          [] s = "FAILED"    -> {"QUEUED"}
          [] s = "CANCELLED" -> {}]

\* mutant: REVIEWING may not go back to CODING
VALID_TRANSITIONS_NoRetryCoding ==
    [s \in JobState |->
        CASE s = "QUEUED"    -> {"PLANNING", "CANCELLED", "FAILED"}
          [] s = "PLANNING"  -> {"CODING", "FAILED", "CANCELLED"}
          [] s = "CODING"    -> {"REVIEWING", "FAILED", "CANCELLED"}
          [] s = "REVIEWING" -> {"PR_OPEN", "FAILED", "CANCELLED"}
          [] s = "PR_OPEN"   -> {"COMPLETED", "FAILED"}
          [] s = "COMPLETED" -> {}
          [] s = "FAILED"    -> {}
          [] s = "CANCELLED" -> {}]

VALID_TRANSITIONS ==
    [s \in JobState |->
        CASE s = "QUEUED"    -> {"PLANNING", "CANCELLED", "FAILED"}
          [] s = "PLANNING"  -> {"CODING", "FAILED", "CANCELLED"}
          [] s = "CODING"    -> {"REVIEWING", "FAILED", "CANCELLED"}
          [] s = "REVIEWING" -> {"CODING", "PR_OPEN", "FAILED", "CANCELLED"}
          [] s = "PR_OPEN"   -> {"COMPLETED", "FAILED"}
          [] s = "COMPLETED" -> {}
          [] s = "FAILED"    -> {}
          [] s = "CANCELLED" -> {}]

isValidTransition(from, to) ==
    to \in VALID_TRANSITIONS[from]

\* the Record<JobState, Partial<Record<JobEvent, JobState>>> literal of getNextState:
\* each state's partial record as a set of <<event, target>> entries
transitions ==
    [s \in JobState |->
        CASE s = "QUEUED"    -> {<<"START_PLANNING", "PLANNING">>,
                                 <<"CANCEL", "CANCELLED">>,
                                 <<"FAIL", "FAILED">>}
          [] s = "PLANNING"  -> {<<"PLAN_SUCCEEDED", "CODING">>,
                                 <<"PLAN_FAILED", "FAILED">>,
                                 <<"CANCEL", "CANCELLED">>}
          [] s = "CODING"    -> {<<"CODE_SUCCEEDED", "REVIEWING">>,
                                 <<"CODE_FAILED", "FAILED">>,
                                 <<"CANCEL", "CANCELLED">>}
          [] s = "REVIEWING" -> {<<"REVIEW_APPROVED", "PR_OPEN">>,
                                 <<"REVIEW_REJECTED", "CODING">>,
                                 <<"REVIEW_FAILED", "FAILED">>,
                                 <<"CANCEL", "CANCELLED">>}
          [] s = "PR_OPEN"   -> {<<"PR_OPENED", "COMPLETED">>,
                                 <<"PR_FAILED", "FAILED">>}
          [] s = "COMPLETED" -> {}
          [] s = "FAILED"    -> {}
          [] s = "CANCELLED" -> {}]

\* transitions[currentState][event] ?? null
Lookup(rec, event) ==
    IF \E en \in rec : en[1] = event
    THEN (CHOOSE en \in rec : en[1] = event)[2]
    ELSE Null

\* mutant: FAIL accepted in every non-terminal state, not only in QUEUED
getNextState_FailEverywhere(currentState, event) ==
    IF event = "FAIL" /\ transitions[currentState] # {}
    THEN "FAILED"
    ELSE Lookup(transitions[currentState], event)

getNextState(currentState, event) ==
    Lookup(transitions[currentState], event)

----------------------------------------------------------------------------
(* SpecPure: the pure predicates applied to every input *)

NotApplied == [applied |-> FALSE]

InitPure ==
    /\ pin \in [s : JobState, e : JobEvent, t : JobState]
    /\ pout = NotApplied

\* evaluate getNextState, isValidTransition and VALID_TRANSITIONS on the input
ApplyPredicates ==
    /\ pout = NotApplied
    /\ pout' = [applied |-> TRUE,
                next    |-> getNextState(pin.s, pin.e),
                valid   |-> isValidTransition(pin.s, pin.t),
                allowed |-> VALID_TRANSITIONS[pin.s]]
    /\ UNCHANGED <<pin, smVars, dbVars, wkVars, opVars>>

----------------------------------------------------------------------------
(* jobs table and JobStateMachine.transition *)

NoValue   == "NoValue"       \* a key absent from an object
Undefined == "undefined"     \* an optional argument left out; no store bound

\* errorDetails arguments: left out, the empty string, an error message
ErrorDetailsArgs == {Undefined, "", "agent failed"}

\* jobs.metadata default {} ; a caller of insert may store issue details in it
EmptyMetadata == [errorDetails |-> NoValue, failedAt |-> NoValue, issueNumber |-> NoValue]

\* defaults of the jobs table: status 'QUEUED', metadata {}
NewJobRow(metadata) == [status |-> "QUEUED", metadata |-> metadata]

\* no row with this id in the jobs table
NoRow == [status |-> "NoRow", metadata |-> EmptyMetadata]

IdleCall == [pc |-> "idle"]

\* JavaScript truthiness of the errorDetails argument
Truthy(errorDetails) == errorDetails \notin {Undefined, ""}

\* the object given to .set(): status, and metadata only with truthy errorDetails
\* (hasMetadata: the metadata key is part of the object)
SetClause(call) ==
    [status      |-> call.nextState,
     hasMetadata |-> Truthy(call.errorDetails),
     metadata    |-> [call.currentJob.metadata EXCEPT
                          !.errorDetails = call.errorDetails,
                          !.failedAt     = call.currentState]]

\* UPDATE jobs SET ... WHERE id = jobId, applied to the row as it is now
ApplySet(row, set) ==
    [status   |-> set.status,
     metadata |-> IF set.hasMetadata THEN set.metadata ELSE row.metadata]

\* a call's end: the value returned, or the JobStateError thrown
Returned(value)  == [outcome |-> "ok", value |-> value, message |-> ""]
Threw(message)   == [outcome |-> "JobStateError", value |-> Null, message |-> message]

\* the call that ended: its arguments, the status it read, and how it ended
CallEnd(jobId, event, from, end) ==
    [method |-> "transition", row |-> NoRow, jobId |-> jobId, event |-> event,
     from |-> from, outcome |-> end.outcome, value |-> end.value,
     message |-> end.message]

NothingReturned ==
    [method |-> "", row |-> NoRow, jobId |-> "", event |-> "", from |-> "",
     outcome |-> "none", value |-> Null, message |-> ""]

\* mutant: an event with no entry is taken as a failure of the job
NextStateOrThrow_FailsJob(currentState, event) ==
    IF getNextState(currentState, event) = Null
    THEN (IF currentState = "FAILED" THEN Threw("Invalid event") ELSE Returned("FAILED"))
    ELSE Returned(getNextState(currentState, event))

\* transition, between the select and the update: the two checks that throw
NextStateOrThrow(currentState, event) ==
    LET nextState == getNextState(currentState, event) IN
    IF nextState = Null
    THEN Threw("Invalid event")
    ELSE IF ~isValidTransition(currentState, nextState)
    THEN Threw("Invalid transition")
    ELSE Returned(nextState)

\* transition(jobId, event, errorDetails): the select resolves; every throw before the
\* update is decided here, synchronously after the read
TransitionSelect(c, jobId, event, errorDetails) ==
    /\ calls[c].pc = "idle"
    /\ ncalls < MaxCalls
    /\ ncalls' = ncalls + 1
    /\ IF jobs[jobId] = NoRow
       THEN /\ returned' = CallEnd(jobId, event, NoRow.status, Threw("not found"))
            /\ UNCHANGED calls
       ELSE LET currentJob == jobs[jobId]
                next       == NextStateOrThrow(currentJob.status, event)
            IN  IF next.outcome = "ok"
                THEN /\ calls' = [calls EXCEPT ![c] =
                            [pc |-> "update", jobId |-> jobId, event |-> event,
                             errorDetails |-> errorDetails, currentJob |-> currentJob,
                             currentState |-> currentJob.status,
                             nextState |-> next.value]]
                     /\ UNCHANGED returned
                ELSE /\ returned' = CallEnd(jobId, event, currentJob.status, next)
                     /\ UNCHANGED calls
    /\ UNCHANGED <<jobs, pureVars, dbVars, wkVars, opVars>>

\* transition: the UPDATE ... WHERE id = jobId RETURNING runs, and the call returns
TransitionUpdate(c) ==
    LET call == calls[c] IN
    /\ call.pc = "update"
    /\ calls' = [calls EXCEPT ![c] = IdleCall]
    /\ IF jobs[call.jobId] = NoRow
       THEN /\ returned' = CallEnd(call.jobId, call.event, call.currentState,
                                    Threw("Failed to update"))
            /\ UNCHANGED jobs
       ELSE /\ jobs' = [jobs EXCEPT ![call.jobId] = ApplySet(@, SetClause(call))]
            /\ returned' = CallEnd(call.jobId, call.event, call.currentState,
                                    Returned(call.nextState))
    /\ UNCHANGED <<ncalls, pureVars, dbVars, wkVars, opVars>>

\* mutant: a missing job is taken for a job just created
getCurrentState_QueuedIfMissing(jobId) ==
    IF jobs[jobId] = NoRow THEN Returned("QUEUED") ELSE Returned(jobs[jobId].status)

\* getCurrentState(jobId): the row's status, or JobStateError when no row is found
getCurrentState(jobId) ==
    IF jobs[jobId] = NoRow THEN Threw("not found") ELSE Returned(jobs[jobId].status)

\* canTransition(jobId, event): getCurrentState's error passes through; false when
\* getNextState gives null, else isValidTransition (booleans written as strings)
canTransition(jobId, event) ==
    LET current == getCurrentState(jobId) IN
    IF current.outcome # "ok" THEN current
    ELSE LET nextState == getNextState(current.value, event) IN
         IF nextState = Null THEN Returned("false")
         ELSE IF isValidTransition(current.value, nextState) THEN Returned("true")
         ELSE Returned("false")

\* getJob(jobId): JobStateError when no row is found, else the row (its status as
\* value, the row itself kept by the lookup's record)
getJob(jobId) ==
    IF jobs[jobId] = NoRow THEN Threw("not found") ELSE Returned(jobs[jobId].status)

\* a lookup that ended: the method, its arguments, the row found, and how it ended
LookupEnd(method, jobId, event, end) ==
    [CallEnd(jobId, event, jobs[jobId].status, end)
        EXCEPT !.method = method,
               !.row = IF method = "getJob" THEN jobs[jobId] ELSE NoRow]

\* await stateMachine.getCurrentState(jobId)
GetCurrentState(jobId) ==
    /\ returned' = LookupEnd("getCurrentState", jobId, "", getCurrentState(jobId))
    /\ UNCHANGED <<jobs, calls, ncalls, pureVars, dbVars, wkVars, opVars>>

\* await stateMachine.canTransition(jobId, event)
CanTransition(jobId, event) ==
    /\ returned' = LookupEnd("canTransition", jobId, event, canTransition(jobId, event))
    /\ UNCHANGED <<jobs, calls, ncalls, pureVars, dbVars, wkVars, opVars>>

\* await stateMachine.getJob(jobId)
GetJob(jobId) ==
    /\ returned' = LookupEnd("getJob", jobId, "", getJob(jobId))
    /\ UNCHANGED <<jobs, calls, ncalls, pureVars, dbVars, wkVars, opVars>>

\* a row inserted into jobs with the column defaults (status QUEUED, metadata as given)
InsertJob(jobId, metadata) ==
    /\ jobs[jobId] = NoRow
    /\ jobs' = [jobs EXCEPT ![jobId] = NewJobRow(metadata)]
    /\ UNCHANGED <<calls, ncalls, returned, pureVars, dbVars, wkVars, opVars>>

\* the metadata a job row is created with: issue details, no error keys
IssueMetadata == [EmptyMetadata EXCEPT !.issueNumber = "#123"]

\* a job row is absent, or in any status earlier error-free transitions left it in
InitSM ==
    /\ jobs \in [JobIds -> {NoRow} \cup
                    {[status |-> s, metadata |-> IssueMetadata] : s \in JobState}]
    /\ calls = [c \in Callers |-> IdleCall]
    /\ ncalls = 0
    /\ returned = NothingReturned

NextSM ==
    \/ \E j \in JobIds : InsertJob(j, IssueMetadata)
    \/ \E c \in Callers, j \in JobIds, e \in JobEvent, d \in ErrorDetailsArgs :
          TransitionSelect(c, j, e, d)
    \/ \E c \in Callers : TransitionUpdate(c)

\* one caller's transitions and lookups, on jobs that exist and on ids without a row
NextLookup ==
    \/ \E j \in JobIds : InsertJob(j, IssueMetadata)
    \/ \E j \in JobIds, e \in JobEvent : TransitionSelect("c1", j, e, Undefined)
    \/ TransitionUpdate("c1")
    \/ \E j \in JobIds : GetCurrentState(j)
    \/ \E j \in JobIds, e \in JobEvent : CanTransition(j, e)
    \/ \E j \in JobIds : GetJob(j)

----------------------------------------------------------------------------
(* tenant context (AsyncLocalStorage) *)

MaxNest == 2     \* depth of nested runWithTenantContext calls

Tenants == {"tenantA", "tenantB"}

\* tenantContextStore.getStore(): the innermost bound context, or undefined
getStore == IF store = <<>> THEN Undefined ELSE store[Len(store)]

hasTenantContext == getStore # Undefined

\* getCurrentTenantContext().tenantId (throws TenantContextError outside a context;
\* every use below is guarded by hasTenantContext)
getCurrentTenantId == getStore

\* runWithTenantContext(context, fn): fn starts with the context bound
RunWithTenantContext(tenantId) ==
    /\ Len(store) < MaxNest
    /\ store' = Append(store, tenantId)
    /\ UNCHANGED <<repos, plans, last, smVars, pureVars, wkVars, opVars>>

\* fn returns or throws: AsyncLocalStorage.run restores the enclosing context
ContextExit ==
    /\ store # <<>>
    /\ store' = SubSeq(store, 1, Len(store) - 1)
    /\ UNCHANGED <<repos, plans, last, smVars, pureVars, wkVars, opVars>>

\* getCurrentTenantContext(): the bound context, or TenantContextError thrown;
\* getCurrentTenantId() is getCurrentTenantContext().tenantId and throws with it
getCurrentTenantContext ==
    IF getStore = Undefined
    THEN [thrown |-> "TenantContextError", tenantId |-> NoValue]
    ELSE [thrown |-> "", tenantId |-> getStore]

----------------------------------------------------------------------------
(* asynchronous operations under runWithTenantContext; verifyTenantOwnership *)

Ops == {"op1", "op2"}

\* how a wrapped fn ends: it returns a value or throws
NoEnd  == [outcome |-> "none", value |-> ""]
FnEnds == {[outcome |-> "return", value |-> "result"],
           [outcome |-> "throw", value |-> "Error"]}

\* context: the async context an operation's continuation was created in (kept while
\* it is suspended); scope: the tenant ids the operation bound, innermost last;
\* fnEnd / runEnd: how the fn that ended last ended, and how runWithTenantContext did
IdleOp ==
    [pc |-> "idle", context |-> <<>>, scope |-> <<>>, fnEnd |-> NoEnd,
     runEnd |-> NoEnd, resumed |-> FALSE]

NoOpRunning == \A o \in Ops : ops[o].pc # "running"

\* AsyncLocalStorage.run(context, fn): fn is called with context as the store
RunEnter(tenantId) == Append(store, tenantId)

\* mutant: the enclosing store is put back only when fn returns
RunExit_NoFinally(end) ==
    IF end.outcome = "throw" THEN store ELSE SubSeq(store, 1, Len(store) - 1)

\* AsyncLocalStorage.run: the enclosing store is put back when fn returns or throws
RunExit(end) == SubSeq(store, 1, Len(store) - 1)

\* return tenantContextStore.run(context, fn): fn's value returned, its error rethrown
RunResult(end) == end

\* mutant: one store for the whole process, left as the last step left it
AsyncContextOnResume_Global(o) == store

\* a continuation runs with the store of the async context it was created in
AsyncContextOnResume(o) == ops[o].context

\* an operation calls runWithTenantContext(context, fn): at the top level of a new
\* operation, or nested inside the fn it is running
OpRun(o, tenantId) ==
    /\ \/ ops[o].pc = "idle" /\ NoOpRunning
       \/ ops[o].pc = "running"
    /\ Len(store) < MaxNest
    /\ store' = RunEnter(tenantId)
    /\ ops' = [ops EXCEPT ![o] =
          IF ops[o].pc = "idle"
          THEN [IdleOp EXCEPT !.pc = "running", !.scope = <<tenantId>>]
          ELSE [@ EXCEPT !.scope = Append(@, tenantId)]]
    /\ UNCHANGED <<repos, plans, last, smVars, pureVars, wkVars, verified, instances>>

\* the running fn awaits: control goes back to the event loop through every
\* enclosing run call, the continuation keeps the async context
OpAwait(o) ==
    /\ ops[o].pc = "running"
    /\ ops' = [ops EXCEPT ![o] = [@ EXCEPT !.pc = "suspended", !.context = store]]
    /\ store' = <<>>
    /\ UNCHANGED <<repos, plans, last, smVars, pureVars, wkVars, verified, instances>>

\* the event loop runs the continuation of a suspended operation
OpResume(o) ==
    /\ ops[o].pc = "suspended"
    /\ NoOpRunning
    /\ store' = AsyncContextOnResume(o)
    /\ ops' = [ops EXCEPT ![o] = [@ EXCEPT !.pc = "running", !.resumed = TRUE]]
    /\ UNCHANGED <<repos, plans, last, smVars, pureVars, wkVars, verified, instances>>

\* the innermost fn of the running operation returns or throws, and with it the
\* runWithTenantContext call around it
OpExit(o, end) ==
    /\ ops[o].pc = "running"
    /\ store' = RunExit(end)
    /\ ops' = [ops EXCEPT ![o] =
          [@ EXCEPT !.pc = IF Len(ops[o].scope) = 1 THEN "idle" ELSE "running",
                    !.scope = SubSeq(@, 1, Len(@) - 1),
                    !.fnEnd = end, !.runEnd = RunResult(end)]]
    /\ UNCHANGED <<repos, plans, last, smVars, pureVars, wkVars, verified, instances>>

\* the rows handed to verifyTenantOwnership: null / undefined, or a row of a tenant
NullEntity == [isNull |-> TRUE, tenantId |-> NoValue]
Entities   == {NullEntity} \cup {[isNull |-> FALSE, tenantId |-> t] : t \in Tenants}

ResourceTypes == {"Repository"}

\* mutant: the scope is required before the entity is looked at
verifyTenantOwnership_ScopeFirst(entity, resourceType) ==
    IF ~hasTenantContext THEN "TenantScopeError"
    ELSE IF entity.isNull THEN "ok"
    ELSE IF entity.tenantId # getCurrentTenantId THEN "TenantAccessDeniedError"
    ELSE "ok"

\* verifyTenantOwnership(entity, resourceType): "ok" when it returns, else the name
\* of the error it throws
verifyTenantOwnership(entity, resourceType) ==
    IF entity.isNull THEN "ok"
    ELSE IF ~hasTenantContext THEN "TenantScopeError"
    ELSE IF entity.tenantId # getCurrentTenantId THEN "TenantAccessDeniedError"
    ELSE "ok"

NotVerified == [entity |-> NullEntity, scope |-> Undefined, outcome |-> "none"]

\* verifyTenantOwnership is called: at the top level or inside a running operation
VerifyOwnership(entity, resourceType) ==
    /\ verified' = [entity |-> entity, scope |-> getStore,
                    outcome |-> verifyTenantOwnership(entity, resourceType)]
    /\ UNCHANGED <<dbVars, smVars, pureVars, wkVars, ops, instances>>

InitCtx ==
    /\ ops = [o \in Ops |-> IdleOp]
    /\ verified = NotVerified

NextCtx ==
    \/ \E o \in Ops, t \in Tenants : OpRun(o, t)
    \/ \E o \in Ops : OpAwait(o)
    \/ \E o \in Ops : OpResume(o)
    \/ \E o \in Ops, end \in FnEnds : OpExit(o, end)
    \/ \E entity \in Entities, rt \in ResourceTypes : VerifyOwnership(entity, rt)

----------------------------------------------------------------------------
(* tenant-aware client over the repositories table *)

NumRepoIds == 2
MaxBatch   == 2     \* rows in one insert(...).values([...])

RepoIds == 1..NumRepoIds

\* an SQL condition: a conjunction (sequence) of column = value atoms; an atom on
\* the id column compares with id, one on tenantId or enabled with str
Eq(col, val) == <<[col |-> col, id |-> 0, str |-> val]>>
EqId(val)    == <<[col |-> "id", id |-> val, str |-> ""]>>
And(a, b)    == a \o b

\* a builder's config.where: a condition, or undefined (no WHERE clause)
NoWhere      == [has |-> FALSE, conj |-> <<>>]
Where(cond)  == [has |-> TRUE, conj |-> cond]

\* what the caller does with the builder the client returned: no .where() call,
\* .where(undefined), or .where(cond) with eq(repositories.id, i) or eq(enabled, true)
NoCall           == [call |-> "none", cond |-> <<>>]
WhereUndefined   == [call |-> "undefined", cond |-> <<>>]
WhereCond(cond)  == [call |-> "cond", cond |-> cond]
CallerConditions == {EqId(i) : i \in RepoIds} \cup {Eq("enabled", "true")}
CallerWhere      == {NoCall, WhereUndefined} \cup {WhereCond(c) : c \in CallerConditions}

\* the row satisfies one atom
Holds(atom, row) ==
    IF atom.col = "id" THEN row.id = atom.id ELSE row[atom.col] = atom.str

\* the row satisfies the statement's WHERE clause
Matches(where, row) ==
    where.has => \A i \in 1..Len(where.conj) : Holds(where.conj[i], row)

\* mutant: every table is taken for a multi-tenant one
hasTenantIdColumn_Always(table) == TRUE

\* 'tenantId' in table: true of repositories, false of plans
hasTenantIdColumn(table) == table = "repositories"

getTenantIdColumn(table) == "tenantId"

getTenantFilterCondition(table) == Eq(getTenantIdColumn(table), getCurrentTenantId)

\* drizzle builder .where(cond): config.where = cond
BuilderWhere(builder, where) == [builder EXCEPT !.where = where]

\* mutant: the caller's condition is passed on alone
TenantFilterProxyWhere_UserOnly(builder, table, condition) ==
    BuilderWhere(builder, IF condition.call = "cond" THEN Where(condition.cond)
                          ELSE NoWhere)

\* the where() the proxy hands out: and(tenantFilter, condition), or tenantFilter alone
TenantFilterProxyWhere(builder, table, condition) ==
    LET tenantFilter == getTenantFilterCondition(table)
        combined     == IF condition.call = "cond"
                        THEN And(tenantFilter, condition.cond)
                        ELSE tenantFilter
    IN  BuilderWhere(builder, Where(combined))

\* the caller's chain on a builder wrapped by createTenantFilterProxy: .where() is
\* intercepted if called; every other property (returning, then) passes through
createTenantFilterProxy(builder, table, callerWhere) ==
    IF callerWhere.call = "none"
    THEN builder
    ELSE TenantFilterProxyWhere(builder, table, callerWhere)

\* createUpdateProxy: .set(values) runs on the builder, its result is wrapped
createUpdateProxy(builder, table, setValues, callerWhere) ==
    createTenantFilterProxy([builder EXCEPT !.set = setValues], table, callerWhere)

Thrown(name) == [thrown |-> name]

IsThrown(x) == "thrown" \in DOMAIN x

withImmediateTenantFilter(qb, table) ==
    IF ~hasTenantIdColumn(table) THEN qb
    ELSE IF ~hasTenantContext THEN Thrown("TenantScopeError")
    ELSE BuilderWhere(qb, Where(Eq(getTenantIdColumn(table), getCurrentTenantId)))

\* the objects callers give to values(): tenantId given or left out, enabled given
\* or left to the column default
InsertObjects == [tenantId : Tenants \cup {NoValue}, enabled : {NoValue}]

\* the objects callers give to set()
SetObjects == [tenantId : Tenants \cup {NoValue}, enabled : {NoValue, "false"}]

NoSet == [tenantId |-> NoValue, enabled |-> NoValue]

NewBuilder(kind, table) ==
    [kind |-> kind, table |-> table, where |-> NoWhere, set |-> NoSet]

\* mutant: the caller's object is spread over the injected tenantId
InjectTenantId_CallerWins(v) ==
    IF v.tenantId = NoValue THEN [v EXCEPT !.tenantId = getCurrentTenantId] ELSE v

\* { ...v, tenantId: currentTenantId }
InjectTenantId(v) == [v EXCEPT !.tenantId = getCurrentTenantId]

\* the values() of the builder insert() returns: wrapped only for a multi-tenant table
\* inside a tenant context; both the object and the array form are mapped
InsertValues(table, isArray, items) ==
    IF hasTenantIdColumn(table) /\ hasTenantContext
    THEN [i \in 1..Len(items) |-> InjectTenantId(items[i])]
    ELSE items

\* UPDATE ... SET: the columns named by the set object
ApplySetObject(row, set) ==
    [id       |-> row.id,
     tenantId |-> IF set.tenantId = NoValue THEN row.tenantId ELSE set.tenantId,
     enabled  |-> IF set.enabled = NoValue THEN row.enabled ELSE set.enabled]

\* the row the database stores for an inserted object: id generated, enabled
\* defaulting to true
StoredRow(id, v) ==
    [id |-> id, tenantId |-> v.tenantId,
     enabled |-> IF v.enabled = NoValue THEN "true" ELSE v.enabled]

\* the rows of a table; a plans row has no tenantId (NoValue), its enabled stands
\* for the is_active column
TableRows(table) == IF table = "plans" THEN plans ELSE repos

\* the statement's effect on its table
WriteTable(table, rows) ==
    IF table = "plans" THEN plans' = rows /\ UNCHANGED repos
                       ELSE repos' = rows /\ UNCHANGED plans

NoStatement ==
    [op |-> "none", table |-> "", scope |-> Undefined, callerWhere |-> NoCall, set |-> NoSet,
     isArray |-> FALSE, items |-> <<>>, outcome |-> "none", sqlSent |-> FALSE,
     where |-> NoWhere, rows |-> {}]

\* the statement did not reach the database: the client threw
Refused(op, callerWhere, set, error) ==
    [NoStatement EXCEPT !.op = op, !.scope = getStore, !.callerWhere = callerWhere,
                        !.set = set, !.outcome = error]

\* the statement was sent; rows: the rows it returned
Executed(op, callerWhere, set, outcome, where, rows) ==
    [NoStatement EXCEPT !.op = op, !.scope = getStore, !.callerWhere = callerWhere,
                        !.set = set, !.outcome = outcome, !.sqlSent = TRUE,
                        !.where = where, !.rows = rows]

\* the statement was made through client.<op>(table)
On(table, statement) == [statement EXCEPT !.table = table]

\* the .where() a caller calls on a raw drizzle builder
RawWhere(builder, callerWhere) ==
    IF callerWhere.call = "none" THEN builder
    ELSE BuilderWhere(builder, IF callerWhere.call = "cond"
                               THEN Where(callerWhere.cond) ELSE NoWhere)

\* await tenantAwareDb.select(table) [.where(cond)]
ClientSelect(table, callerWhere) ==
    LET qb == withImmediateTenantFilter(NewBuilder("select", table), table) IN
    /\ IF IsThrown(qb)
       THEN last' = On(table, Refused("select", callerWhere, NoSet, qb.thrown))
       ELSE LET q == RawWhere(qb, callerWhere)
            IN  last' = On(table, Executed("select", callerWhere, NoSet, "ok", q.where,
                                 {r \in TableRows(table) : Matches(q.where, r)}))
    /\ UNCHANGED <<store, repos, plans, smVars, pureVars, wkVars, opVars>>

\* await tenantAwareDb.update(table).set(values) [.where(cond)] .returning()
ClientUpdate(table, setValues, callerWhere) ==
    /\ UNCHANGED <<store, smVars, pureVars, wkVars, opVars>>
    /\ IF hasTenantIdColumn(table) /\ ~hasTenantContext
       THEN /\ last' = On(table, Refused("update", callerWhere, setValues,
                                          "TenantScopeError"))
            /\ UNCHANGED <<repos, plans>>
       ELSE LET q == IF hasTenantIdColumn(table)
                     THEN createUpdateProxy(NewBuilder("update", table), table,
                                            setValues, callerWhere)
                     ELSE RawWhere([NewBuilder("update", table) EXCEPT !.set = setValues],
                                   callerWhere)
                hit == {r \in TableRows(table) : Matches(q.where, r)}
                new == {ApplySetObject(r, q.set) : r \in hit}
            IN  /\ WriteTable(table, (TableRows(table) \ hit) \cup new)
                /\ last' = On(table, Executed("update", callerWhere, setValues, "ok",
                                              q.where, new))

\* await tenantAwareDb.delete(table) [.where(cond)] .returning()
ClientDelete(table, callerWhere) ==
    /\ UNCHANGED <<store, smVars, pureVars, wkVars, opVars>>
    /\ IF hasTenantIdColumn(table) /\ ~hasTenantContext
       THEN /\ last' = On(table, Refused("delete", callerWhere, NoSet,
                                          "TenantScopeError"))
            /\ UNCHANGED <<repos, plans>>
       ELSE LET q == IF hasTenantIdColumn(table)
                     THEN createTenantFilterProxy(NewBuilder("delete", table), table,
                                                  callerWhere)
                     ELSE RawWhere(NewBuilder("delete", table), callerWhere)
                hit == {r \in TableRows(table) : Matches(q.where, r)}
            IN  /\ WriteTable(table, TableRows(table) \ hit)
                /\ last' = On(table, Executed("delete", callerWhere, NoSet, "ok",
                                              q.where, hit))

\* await tenantAwareDb.insert(table).values(object | array) .returning()
\* ids: the generated primary keys, one per row, in order
ClientInsert(table, isArray, items, ids) ==
    LET values == InsertValues(table, isArray, items)
        sent(outcome, rows) ==
            [On(table, Executed("insert", NoCall, NoSet, outcome, NoWhere, rows))
                EXCEPT !.isArray = isArray, !.items = items]
    IN  /\ UNCHANGED <<store, smVars, pureVars, wkVars, opVars>>
        /\ IF /\ table = "repositories"
              /\ \E i \in 1..Len(values) : values[i].tenantId = NoValue
           THEN \* tenant_id is NOT NULL: the database rejects the statement
                /\ last' = sent("DbError", {})
                /\ UNCHANGED <<repos, plans>>
           ELSE LET new == {StoredRow(ids[i], values[i]) : i \in 1..Len(values)}
                IN  /\ WriteTable(table, TableRows(table) \cup new)
                    /\ last' = sent("ok", new)

\* the primary keys the database may generate for n rows: unused, pairwise distinct
FreshIds(n) ==
    {ids \in [1..n -> RepoIds \ {r.id : r \in repos}] :
        \A i, k \in 1..n : i # k => ids[i] # ids[k]}

\* the primary keys the database may generate for n rows of the plans table
FreshPlanIds(n) ==
    {ids \in [1..n -> RepoIds \ {r.id : r \in plans}] :
        \A i, k \in 1..n : i # k => ids[i] # ids[k]}

\* the objects callers give to values() and set() for the plans table
PlanInsertObjects == {v \in InsertObjects : v.tenantId = NoValue}
PlanSetObjects    == {v \in SetObjects : v.tenantId = NoValue}

InitDb ==
    /\ store = <<>>
    /\ repos = {}
    /\ plans = {}
    /\ last = NoStatement

\* statements run at the top level or directly inside one runWithTenantContext
NextDb ==
    \/ \E t \in Tenants : store = <<>> /\ RunWithTenantContext(t)
    \/ ContextExit
    \/ \E cw \in CallerWhere : ClientSelect("repositories", cw)
    \/ \E sv \in SetObjects, cw \in CallerWhere : ClientUpdate("repositories", sv, cw)
    \/ \E cw \in CallerWhere : ClientDelete("repositories", cw)
    \/ \E v \in InsertObjects, ids \in FreshIds(1) :
          ClientInsert("repositories", FALSE, <<v>>, ids)
    \/ \E n \in 1..MaxBatch : \E items \in [1..n -> InsertObjects], ids \in FreshIds(n) :
          ClientInsert("repositories", TRUE, items, ids)

\* statements on the plans table, at the top level or inside runWithTenantContext
NextPlans ==
    \/ \E t \in Tenants : store = <<>> /\ RunWithTenantContext(t)
    \/ ContextExit
    \/ \E cw \in CallerWhere : ClientSelect("plans", cw)
    \/ \E sv \in PlanSetObjects, cw \in CallerWhere : ClientUpdate("plans", sv, cw)
    \/ \E cw \in CallerWhere : ClientDelete("plans", cw)
    \/ \E v \in PlanInsertObjects, ids \in FreshPlanIds(1) :
          ClientInsert("plans", FALSE, <<v>>, ids)
    \/ \E n \in 1..MaxBatch : \E items \in [1..n -> PlanInsertObjects],
                                  ids \in FreshPlanIds(n) :
          ClientInsert("plans", TRUE, items, ids)

----------------------------------------------------------------------------
(* queues (BullMQ), the agent, the job producer and the four stage workers *)

QueueAttempts == 3     \* defaultJobOptions.attempts

MaxDeliveries == 3     \* handler invocations begun in one behaviour of SpecWk

Runs == {1, 2}         \* handler invocations that may be in progress at once

QUEUE_NAMES == {"planning", "coding", "reviewing", "pr-open"}

\* IAgent implementations: how plan, code and review end, and the message of the
\* Error a failing operation rejects with (MockAgent: a fixed non-empty message)
ErrorMessages == {"", "MockAgent: failed (simulated)"}

Agents ==
    {a \in [plan : {"ok", "throw"}, code : {"ok", "throw"},
            review : {"approve", "reject", "throw"}, message : ErrorMessages] :
        (a.plan = "ok" /\ a.code = "ok" /\ a.review # "throw")
            => a.message = "MockAgent: failed (simulated)"}

\* CodeResult (changes, commitMessage, branch, metadata): it has no attempts key, so
\* reading .attempts gives undefined, written 0 here (both are falsy)
CodeResult == [attempts |-> 0]

\* the part of AicdJob.payload the handlers read: attempts (0: key absent), code;
\* pass is not part of the payload: it records the attempts value of the coding
\* message whose handler produced this message
Payload(attempts, pass) == [attempts |-> attempts, code |-> CodeResult, pass |-> pass]

QueuedPayload == Payload(0, 0)

\* a message as queue.add(name, data, {jobId}) stores it: waiting, no attempt made
Message(id, jobId, payload) ==
    [id |-> id, jobId |-> jobId, payload |-> payload, state |-> "waiting",
     attemptsMade |-> 0, stalled |-> FALSE, owner |-> 0]

HasId(queue, id) == \E m \in queue : m.id = id

\* mutant: a second add under an id already in the queue stores a second message
QueueAdd_NoDedup(queue, m) == queue \cup {m}

\* Queue.add with a custom jobId: ignored when a message with this id is in the queue
\* in any state (waiting, active, completed, failed)
QueueAdd(queue, m) ==
    IF HasId(queue, m.id) THEN queue ELSE queue \cup {m}

NoAdd == [by |-> "none", queue |-> "", id |-> "", jobId |-> "",
          payload |-> QueuedPayload, collapsed |-> FALSE, from |-> QueuedPayload]

\* the record of one add: collapsed when the queue already held the id; from is
\* the payload of the message the adding handler was invoked with
AddRecord(by, q, m, from) ==
    [by |-> by, queue |-> q, id |-> m.id, jobId |-> m.jobId,
     payload |-> m.payload, collapsed |-> HasId(queues[q], m.id), from |-> from]

IdleRun ==
    [pc |-> "idle", queue |-> "", jobId |-> "", payload |-> QueuedPayload,
     phase |-> "", event |-> "", errorDetails |-> Undefined,
     currentJob |-> NoRow, currentState |-> "", nextState |-> Null, outcome |-> "",
     startStatus |-> "", sawTerminal |-> FALSE]

\* mutant: every catch block fires the coding stage's failure event
FailEvent_CodingForAll(queue) == "CODE_FAILED"

\* the event a handler fires in its catch block
FailEvent(queue) ==
    CASE queue = "planning"  -> "PLAN_FAILED"
      [] queue = "coding"    -> "CODE_FAILED"
      [] queue = "reviewing" -> "REVIEW_FAILED"
      [] queue = "pr-open"   -> "PR_FAILED"

\* how the awaited operation of a stage ends: agent.plan / agent.code / agent.review;
\* the pr-open stage awaits a timer, which does not fail
StageResult(queue) ==
    CASE queue = "planning"  -> agent.plan
      [] queue = "coding"    -> agent.code
      [] queue = "reviewing" -> agent.review
      [] queue = "pr-open"   -> "ok"

\* mutant: the reviewing handler takes every review for an approval
SuccessEvent_AlwaysApproved(queue, result) ==
    CASE queue = "planning"  -> "PLAN_SUCCEEDED"
      [] queue = "coding"    -> "CODE_SUCCEEDED"
      [] queue = "reviewing" -> "REVIEW_APPROVED"
      [] queue = "pr-open"   -> "PR_OPENED"

\* the event a handler fires after its stage's operation returned
SuccessEvent(queue, result) ==
    CASE queue = "planning"  -> "PLAN_SUCCEEDED"
      [] queue = "coding"    -> "CODE_SUCCEEDED"
      [] queue = "reviewing" -> IF result = "approve" THEN "REVIEW_APPROVED"
                                                      ELSE "REVIEW_REJECTED"
      [] queue = "pr-open"   -> "PR_OPENED"

\* mutant: an approved job is sent back to the coding queue
NextQueue_ApprovedToCoding(queue, event) ==
    CASE queue = "planning"  -> "coding"
      [] queue = "coding"    -> "reviewing"
      [] queue = "reviewing" -> "coding"
      [] queue = "pr-open"   -> ""

\* the queue a handler adds to after its success transition ("": none)
NextQueue(queue, event) ==
    CASE queue = "planning"  -> "coding"
      [] queue = "coding"    -> "reviewing"
      [] queue = "reviewing" -> IF event = "REVIEW_APPROVED" THEN "pr-open" ELSE "coding"
      [] queue = "pr-open"   -> ""

\* (payload.code as any).attempts ? (payload.code as any).attempts + 1 : 1
RejectAttempts(payload) ==
    IF payload.code.attempts # 0 THEN payload.code.attempts + 1 ELSE 1

\* the payload a handler forwards: the rejected branch sets attempts, the others none
NextPayload(run) ==
    IF run.event = "REVIEW_REJECTED"
    THEN Payload(RejectAttempts(run.payload), 0)
    ELSE Payload(0, run.payload.attempts)

\* the read of transition and its two checks, as a handler's call meets them
SelectOutcome(jobId, event) ==
    IF jobs[jobId] = NoRow
    THEN Threw("Job not found")
    ELSE NextStateOrThrow(jobs[jobId].status, event)

\* an exception raised inside the handler: in the try block control moves to the
\* catch block, which fires the failure event with the error's message; raised by
\* that transition, it leaves the handler
Caught(run, message) ==
    IF run.phase = "try"
    THEN [run EXCEPT !.phase = "catch", !.pc = "select",
                     !.event = FailEvent(run.queue), !.errorDetails = message]
    ELSE [run EXCEPT !.pc = "finish", !.outcome = "throw"]

\* the status is one without outgoing transitions
IsTerminal(status) == status \in JobState /\ VALID_TRANSITIONS[status] = {}

\* the worker takes a waiting message and invokes the handler: the planning handler
\* begins with transition(START_PLANNING), the others with their stage's operation
Deliver(q, r) ==
    /\ runs[r].pc = "idle"
    /\ \A r2 \in Runs : runs[r2].pc = "idle" => r <= r2
    /\ \E m \in queues[q] :
          /\ m.state = "waiting"
          /\ queues' = [queues EXCEPT ![q] =
                (@ \ {m}) \cup {[m EXCEPT !.state = "active", !.owner = r]}]
          /\ runs' = [runs EXCEPT ![r] =
                [IdleRun EXCEPT !.pc = IF q = "planning" THEN "select" ELSE "stage",
                                !.queue = q, !.jobId = m.jobId, !.payload = m.payload,
                                !.phase = "try",
                                !.event = IF q = "planning" THEN "START_PLANNING" ELSE "",
                                !.startStatus = jobs[m.jobId].status]]
    /\ delivered' = IF delivered < MaxDeliveries THEN delivered + 1 ELSE delivered
    /\ UNCHANGED <<agent, lastAdd, smVars, pureVars, dbVars, opVars>>

\* the select of the handler's transition call resolves: the handler goes on to the
\* update, or the call throws (job not found, invalid event, invalid transition)
Selected(run) ==
    LET row == jobs[run.jobId]
        end == SelectOutcome(run.jobId, run.event)
        saw == [run EXCEPT !.sawTerminal = @ \/ IsTerminal(row.status)]
    IN  IF end.outcome = "ok"
        THEN [saw EXCEPT !.pc = "update", !.currentJob = row,
                         !.currentState = row.status, !.nextState = end.value]
        ELSE Caught(saw, end.message)

\* the stage's operation ends: on an Error the handler enters its catch block, on
\* success it calls transition with the stage's success event, whose select resolves
RunStage(r) ==
    LET run    == runs[r]
        result == StageResult(run.queue)
    IN  /\ run.pc = "stage"
        /\ runs' = [runs EXCEPT ![r] =
              IF result = "throw"
              THEN Caught(run, agent.message)
              ELSE Selected([run EXCEPT !.event = SuccessEvent(run.queue, result)])]
        /\ UNCHANGED <<agent, queues, lastAdd, delivered, smVars, pureVars, dbVars, opVars>>

\* the select of a transition call resolves: START_PLANNING at the start of the
\* planning handler, the failure event in a catch block
RunSelect(r) ==
    LET run == runs[r] IN
    /\ run.pc = "select"
    /\ runs' = [runs EXCEPT ![r] = Selected(run)]
    /\ UNCHANGED <<agent, queues, lastAdd, delivered, smVars, pureVars, dbVars, opVars>>

\* where a handler stands after its transition call returned
AfterTransition(run) ==
    IF run.phase = "catch"
    THEN [run EXCEPT !.pc = "finish", !.outcome = "throw"]
    ELSE IF run.event = "START_PLANNING"
    THEN [run EXCEPT !.pc = "stage"]
    ELSE IF NextQueue(run.queue, run.event) = ""
    THEN [run EXCEPT !.pc = "finish", !.outcome = "ok"]
    ELSE [run EXCEPT !.pc = "add"]

\* the update of the handler's transition call runs
RunUpdate(r) ==
    LET run == runs[r] IN
    /\ run.pc = "update"
    /\ IF jobs[run.jobId] = NoRow
       THEN /\ runs' = [runs EXCEPT ![r] = Caught(run, "Failed to update job")]
            /\ UNCHANGED jobs
       ELSE /\ jobs' = [jobs EXCEPT ![run.jobId] = ApplySet(@, SetClause(run))]
            /\ runs' = [runs EXCEPT ![r] = AfterTransition(run)]
    /\ UNCHANGED <<agent, queues, lastAdd, delivered, calls, ncalls, returned, pureVars, dbVars, opVars>>

\* the handler forwards the job: nextQueue.add(name, {...aicdJob, payload}, {jobId})
RunAdd(r) ==
    LET run == runs[r]
        q   == NextQueue(run.queue, run.event)
        m   == Message(run.jobId, run.jobId, NextPayload(run))
    IN  /\ run.pc = "add"
        /\ queues' = [queues EXCEPT ![q] = QueueAdd(@, m)]
        /\ lastAdd' = AddRecord(run.queue, q, m, run.payload)
        /\ runs' = [runs EXCEPT ![r] = [run EXCEPT !.pc = "finish", !.outcome = "ok"]]
        /\ UNCHANGED <<agent, delivered, smVars, pureVars, dbVars, opVars>>

\* mutant: one attempt more before the message is failed
Settled_OneMore(m, outcome) ==
    IF outcome = "ok"
    THEN [m EXCEPT !.state = "completed", !.owner = 0]
    ELSE IF m.attemptsMade < QueueAttempts
    THEN [m EXCEPT !.state = "waiting", !.owner = 0, !.attemptsMade = @ + 1]
    ELSE [m EXCEPT !.state = "failed", !.owner = 0, !.attemptsMade = @ + 1]

\* the message after its handler returned or threw: completed, waiting for the next
\* attempt, or failed once attempts are used up
Settled(m, outcome) ==
    IF outcome = "ok"
    THEN [m EXCEPT !.state = "completed", !.owner = 0]
    ELSE IF m.attemptsMade + 1 < QueueAttempts
    THEN [m EXCEPT !.state = "waiting", !.owner = 0, !.attemptsMade = @ + 1]
    ELSE [m EXCEPT !.state = "failed", !.owner = 0, !.attemptsMade = @ + 1]

\* the handler returns or throws; the worker settles the message if it still holds it
RunFinish(r) ==
    LET run == runs[r] IN
    /\ run.pc = "finish"
    /\ runs' = [runs EXCEPT ![r] = IdleRun]
    /\ queues' = [queues EXCEPT ![run.queue] =
          {IF m.id = run.jobId /\ m.state = "active" /\ m.owner = r
           THEN Settled(m, run.outcome) ELSE m : m \in @}]
    /\ UNCHANGED <<agent, lastAdd, delivered, smVars, pureVars, dbVars, opVars>>

\* the message the invocation holds is on its first attempt
FirstAttempt(r) ==
    \E m \in queues[runs[r].queue] :
        /\ m.id = runs[r].jobId
        /\ m.state = "active"
        /\ m.owner = r
        /\ m.attemptsMade = 0

\* the update of a transition call in the try block rejects with a database error
\* (connection lost): nothing is written, control moves to the catch block
RunUpdateFails(r) ==
    LET run == runs[r] IN
    /\ run.pc = "update"
    /\ run.phase = "try"
    /\ FirstAttempt(r)
    /\ runs' = [runs EXCEPT ![r] = Caught(run, "Connection terminated unexpectedly")]
    /\ UNCHANGED <<agent, queues, lastAdd, delivered, smVars, pureVars, dbVars, opVars>>

\* nextQueue.add rejects with a broker error (connection lost): nothing is added,
\* control moves to the catch block
RunAddFails(r) ==
    LET run == runs[r] IN
    /\ run.pc = "add"
    /\ FirstAttempt(r)
    /\ runs' = [runs EXCEPT ![r] = Caught(run, "Connection is closed.")]
    /\ UNCHANGED <<agent, queues, lastAdd, delivered, smVars, pureVars, dbVars, opVars>>

\* an active message whose lock ran out: back to waiting the first time, failed
\* the second time (maxStalledCount of the worker: 1)
Stalled(m) ==
    IF m.stalled THEN [m EXCEPT !.state = "failed", !.owner = 0]
    ELSE [m EXCEPT !.state = "waiting", !.owner = 0, !.stalled = TRUE]

\* the worker process dies while it holds the message: the invocation is gone and
\* the message's lock runs out
Crash(r) ==
    LET run == runs[r] IN
    /\ run.pc # "idle"
    /\ \E m \in queues[run.queue] : m.id = run.jobId /\ m.state = "active" /\ m.owner = r
    /\ runs' = [runs EXCEPT ![r] = IdleRun]
    /\ queues' = [queues EXCEPT ![run.queue] =
          {IF m.id = run.jobId THEN Stalled(m) ELSE m : m \in @}]
    /\ UNCHANGED <<agent, lastAdd, delivered, smVars, pureVars, dbVars, opVars>>

\* the lock of an active message runs out while its handler is still running (the
\* worker stopped renewing it): the handler goes on, the message is delivered again
Stall(q) ==
    /\ \E m \in queues[q] :
          /\ m.state = "active"
          /\ queues' = [queues EXCEPT ![q] = (@ \ {m}) \cup {Stalled(m)}]
    /\ UNCHANGED <<agent, runs, lastAdd, delivered, smVars, pureVars, dbVars, opVars>>

\* removeOnComplete / removeOnFail: a finished message is dropped from its queue
Expire(q) ==
    /\ \E m \in queues[q] :
          /\ m.state \in {"completed", "failed"}
          /\ queues' = [queues EXCEPT ![q] = @ \ {m}]
    /\ UNCHANGED <<agent, runs, lastAdd, delivered, smVars, pureVars, dbVars, opVars>>

\* createJob(options): a fresh id, one add on the planning queue under that id
CreateJob(jobId) ==
    LET m == Message(jobId, jobId, QueuedPayload) IN
    /\ lastAdd = NoAdd
    /\ jobs[jobId] = NoRow
    /\ queues' = [queues EXCEPT !["planning"] = QueueAdd(@, m)]
    /\ lastAdd' = AddRecord("createJob", "planning", m, QueuedPayload)
    /\ UNCHANGED <<agent, runs, delivered, smVars, pureVars, dbVars, opVars>>

\* an external caller drives the job to CANCELLED: transition(jobId, CANCEL)
Cancel(jobId) ==
    /\ ncalls = 0
    /\ TransitionSelect("c1", jobId, "CANCEL", Undefined)

CancelUpdate == TransitionUpdate("c1")

NoQueues == [q \in QUEUE_NAMES |-> {}]

\* the integration test's submission: a row inserted with status QUEUED and
\* metadata {}, then one message added on the planning queue under the row's id
Submitted(jobId) ==
    /\ jobs = [j \in JobIds |-> NewJobRow(EmptyMetadata)]
    /\ queues = [NoQueues EXCEPT !["planning"] = {Message(jobId, jobId, QueuedPayload)}]
    /\ lastAdd = [NoAdd EXCEPT !.by = "test", !.queue = "planning",
                               !.id = jobId, !.jobId = jobId]

\* agents none of whose operations fails
ReliableAgents == {a \in Agents : a.plan = "ok" /\ a.code = "ok" /\ a.review # "throw"}

\* workers started with a reliable agent; a job submitted as the test does, or nothing yet
InitWk ==
    /\ agent \in ReliableAgents
    /\ runs = [r \in Runs |-> IdleRun]
    /\ delivered = 0
    /\ calls = [c \in Callers |-> IdleCall]
    /\ ncalls = 0
    /\ returned = NothingReturned
    /\ \/ \E j \in JobIds : Submitted(j)
       \/ /\ jobs = [j \in JobIds |-> NoRow]
          /\ queues = NoQueues
          /\ lastAdd = NoAdd

\* workers started, one job submitted
InitFlow ==
    /\ agent \in Agents
    /\ runs = [r \in Runs |-> IdleRun]
    /\ delivered = 0
    /\ calls = [c \in Callers |-> IdleCall]
    /\ ncalls = 0
    /\ returned = NothingReturned
    /\ \E j \in JobIds : Submitted(j)

\* the steps of the workers
NextHandlers ==
    \/ \E q \in QUEUE_NAMES, r \in Runs : Deliver(q, r)
    \/ \E r \in Runs : RunStage(r)
    \/ \E r \in Runs : RunSelect(r)
    \/ \E r \in Runs : RunUpdate(r)
    \/ \E r \in Runs : RunAdd(r)
    \/ \E r \in Runs : RunFinish(r)

NextFlow ==
    \/ NextHandlers
    \/ \E q \in QUEUE_NAMES : Expire(q)

\* the workers with a database or broker that may fail a message's first attempt
NextRetry ==
    \/ NextFlow
    \/ \E r \in Runs : RunUpdateFails(r)
    \/ \E r \in Runs : RunAddFails(r)

NextWk ==
    \/ \E q \in QUEUE_NAMES, r \in Runs : delivered < MaxDeliveries /\ Deliver(q, r)
    \/ \E r \in Runs : RunStage(r)
    \/ \E r \in Runs : RunSelect(r)
    \/ \E r \in Runs : RunUpdate(r)
    \/ \E r \in Runs : RunAdd(r)
    \/ \E r \in Runs : RunFinish(r)
    \/ \E r \in Runs : Crash(r)
    \/ \E q \in QUEUE_NAMES : Stall(q)
    \/ \E q \in QUEUE_NAMES : Expire(q)
    \/ \E j \in JobIds : CreateJob(j)
    \/ \E j \in JobIds : Cancel(j)
    \/ CancelUpdate

----------------------------------------------------------------------------
(* queue instances (queues.ts): lazy getters and closeAllQueues *)

MaxInstances == 3     \* Queue objects constructed in one behaviour

NoInstance == 0       \* a slot holding null

InstanceIds == 1..MaxInstances

\* closeAllQueues: not running, or waiting on Promise.all after calling close() on
\* queuesToClose; ended: how the last call ended
IdleCloser == [pc |-> "idle", queuesToClose |-> {}, ended |-> "none"]

\* what the last getter call returned, and whether that instance was closed by then
\* error: the message of the Error getQueue threw
NoGet == [name |-> "", instance |-> NoInstance, wasClosed |-> FALSE, error |-> "none"]

\* slot: _planningQueue, _codingQueue, _reviewingQueue, _prOpenQueue;
\* active: the workers whose handler is in flight; stopping: how far afterAll has come
NoInstances ==
    [slot |-> [q \in QUEUE_NAMES |-> NoInstance], made |-> 0, closed |-> {},
     closer |-> IdleCloser, got |-> NoGet, active |-> {}, stopping |-> "running"]

\* mutant: a getter constructs a new Queue on every call
GetQueue_AlwaysNew(name) ==
    /\ instances.made < MaxInstances
    /\ instances' =
          [instances EXCEPT !.slot[name] = instances.made + 1,
                            !.made = @ + 1,
                            !.got = [name |-> name, instance |-> instances.made + 1,
                                     wasClosed |-> FALSE, error |-> "none"]]
    /\ UNCHANGED <<dbVars, smVars, pureVars, wkVars, ops, verified>>

\* getPlanningQueue / getCodingQueue / getReviewingQueue / getPrOpenQueue, also
\* through getQueue(name): a null slot is filled with a new Queue, the slot returned
GetQueue(name) ==
    /\ IF instances.slot[name] = NoInstance
       THEN /\ instances.made < MaxInstances
            /\ instances' =
                  [instances EXCEPT !.slot[name] = instances.made + 1,
                                    !.made = @ + 1,
                                    !.got = [name |-> name, instance |-> instances.made + 1,
                                             wasClosed |-> FALSE, error |-> "none"]]
       ELSE instances' =
                  [instances EXCEPT !.got =
                      [name |-> name, instance |-> instances.slot[name],
                       wasClosed |-> instances.slot[name] \in instances.closed,
                       error |-> "none"]]
    /\ UNCHANGED <<dbVars, smVars, pureVars, wkVars, ops, verified>>

\* names getQueue is called with: the four stages and a name that is none of them
QueueArgs == QUEUE_NAMES \cup {"deploying"}

\* getQueue(name): the stage's getter, or an Error for any other name
getQueue(name) ==
    IF name \in QUEUE_NAMES
    THEN GetQueue(name)
    ELSE /\ instances' =
               [instances EXCEPT !.got = [name |-> name, instance |-> NoInstance,
                                          wasClosed |-> FALSE, error |-> "Unknown queue"]]
         /\ UNCHANGED <<dbVars, smVars, pureVars, wkVars, ops, verified>>

\* closeAllQueues up to its await: the non-null slots are collected and close() is
\* called on each
CloseAllQueuesBegin ==
    /\ instances.closer.pc = "idle"
    /\ instances' =
          [instances EXCEPT !.closer =
              [pc |-> "closing",
               queuesToClose |-> {instances.slot[q] : q \in QUEUE_NAMES} \ {NoInstance},
               ended |-> "none"]]
    /\ UNCHANGED <<dbVars, smVars, pureVars, wkVars, ops, verified>>

\* Promise.all resolves: every collected queue is closed, the four slots are reset
CloseAllQueuesEnd ==
    /\ instances.closer.pc = "closing"
    /\ instances' =
          [instances EXCEPT !.closed = @ \cup instances.closer.queuesToClose,
                            !.slot = [q \in QUEUE_NAMES |-> NoInstance],
                            !.closer = [IdleCloser EXCEPT !.ended = "return"]]
    /\ UNCHANGED <<dbVars, smVars, pureVars, wkVars, ops, verified>>

\* Promise.all rejects (one close() failed): closeAllQueues throws before the reset
CloseAllQueuesFails ==
    /\ instances.closer.pc = "closing"
    /\ \E done \in SUBSET instances.closer.queuesToClose :
          /\ done # instances.closer.queuesToClose
          /\ instances' =
                [instances EXCEPT !.closed = @ \cup done,
                                  !.closer = [IdleCloser EXCEPT !.ended = "throw"]]
    /\ UNCHANGED <<dbVars, smVars, pureVars, wkVars, ops, verified>>

InitInstances == instances = NoInstances

\* the queues a worker's handler enqueues on: planning -> coding, coding ->
\* reviewing, reviewing -> pr-open (approved) or coding (rejected), pr-open -> none
NextStageQueues(worker) ==
    CASE worker = "planning"  -> {"coding"}
      [] worker = "coding"    -> {"reviewing"}
      [] worker = "reviewing" -> {"pr-open", "coding"}
      [] worker = "pr-open"   -> {}

\* mutant: worker.close(true) resolves without waiting for the active handler
WorkerCloseResolves_Force(worker) == TRUE

\* worker.close() resolves once the worker's active handler has settled
WorkerCloseResolves(worker) == worker \notin instances.active

\* the test enqueues a planning message: getPlanningQueue().add(...)
TestGetQueue ==
    /\ instances.stopping = "running"
    /\ GetQueue("planning")

\* a worker takes a message and starts its handler; a closing worker takes none
HandlerStart(worker) ==
    /\ instances.stopping = "running"
    /\ worker \notin instances.active
    /\ instances' = [instances EXCEPT !.active = @ \cup {worker}]
    /\ UNCHANGED <<dbVars, smVars, pureVars, wkVars, ops, verified>>

\* the handler in flight asks the getter for the next stage's queue and enqueues
HandlerGetQueue(worker) ==
    /\ worker \in instances.active
    /\ \E name \in NextStageQueues(worker) : GetQueue(name)

\* the handler returns or throws
HandlerEnd(worker) ==
    /\ worker \in instances.active
    /\ instances' = [instances EXCEPT !.active = @ \ {worker}]
    /\ UNCHANGED <<dbVars, smVars, pureVars, wkVars, ops, verified>>

\* afterAll calls close() on the four workers
AfterAllCloseWorkers ==
    /\ instances.stopping = "running"
    /\ instances' = [instances EXCEPT !.stopping = "workers"]
    /\ UNCHANGED <<dbVars, smVars, pureVars, wkVars, ops, verified>>

\* Promise.all(workers.map(w => w.close())) resolves
AfterAllWorkersClosed ==
    /\ instances.stopping = "workers"
    /\ \A worker \in QUEUE_NAMES : WorkerCloseResolves(worker)
    /\ instances' = [instances EXCEPT !.stopping = "queues"]
    /\ UNCHANGED <<dbVars, smVars, pureVars, wkVars, ops, verified>>

\* afterAll calls closeAllQueues, once
AfterAllCloseQueues ==
    /\ instances.stopping = "queues"
    /\ instances.closer.ended = "none"
    /\ CloseAllQueuesBegin

NextShutdown ==
    \/ TestGetQueue
    \/ \E worker \in QUEUE_NAMES : HandlerStart(worker)
    \/ \E worker \in QUEUE_NAMES : HandlerGetQueue(worker)
    \/ \E worker \in QUEUE_NAMES : HandlerEnd(worker)
    \/ AfterAllCloseWorkers
    \/ AfterAllWorkersClosed
    \/ AfterAllCloseQueues
    \/ CloseAllQueuesEnd
    \/ CloseAllQueuesFails

NextInstances ==
    \/ \E name \in QUEUE_NAMES : GetQueue(name)
    \/ \E name \in QueueArgs : getQueue(name)
    \/ CloseAllQueuesBegin
    \/ CloseAllQueuesEnd
    \/ CloseAllQueuesFails

----------------------------------------------------------------------------
(* Specifications *)

NextPure == ApplyPredicates

IdlePure == /\ pin = [s |-> "QUEUED", e |-> "CANCEL", t |-> "QUEUED"]
            /\ pout = NotApplied

\* the state machine left alone: no job row, no call
IdleSM == /\ jobs = [j \in JobIds |-> NoRow]
          /\ calls = [c \in Callers |-> IdleCall]
          /\ ncalls = 0
          /\ returned = NothingReturned

\* the workers left alone: nothing enqueued, no handler invoked
IdleWk == /\ agent = [plan |-> "ok", code |-> "ok", review |-> "approve",
                      message |-> "MockAgent: failed (simulated)"]
          /\ queues = NoQueues
          /\ runs = [r \in Runs |-> IdleRun]
          /\ lastAdd = NoAdd
          /\ delivered = 0

\* no asynchronous operation started, no queue instance made
IdleOps == InitCtx /\ InitInstances

InitSpecPure  == InitPure /\ IdleSM /\ InitDb /\ IdleWk /\ IdleOps
InitSpecSM    == InitSM /\ IdlePure /\ InitDb /\ IdleWk /\ IdleOps
InitSpecLookup == InitSM /\ IdlePure /\ InitDb /\ IdleWk /\ IdleOps
InitSpecDb    == InitDb /\ IdlePure /\ IdleSM /\ IdleWk /\ IdleOps
InitSpecWk    == InitWk /\ IdlePure /\ InitDb /\ IdleOps
InitSpecFlow  == InitFlow /\ IdlePure /\ InitDb /\ IdleOps
InitSpecRetry == InitFlow /\ IdlePure /\ InitDb /\ IdleOps
InitSpecCtx   == InitCtx /\ InitInstances /\ InitDb /\ IdlePure /\ IdleSM /\ IdleWk
InitSpecPlans == InitDb /\ IdlePure /\ IdleSM /\ IdleWk /\ IdleOps
InitSpecQueues == InitInstances /\ InitCtx /\ InitDb /\ IdlePure /\ IdleSM /\ IdleWk
InitSpecShutdown == InitInstances /\ InitCtx /\ InitDb /\ IdlePure /\ IdleSM /\ IdleWk

SpecPure == InitSpecPure /\ [][NextPure]_vars

SpecSM == InitSpecSM /\ [][NextSM]_vars

SpecDb == InitSpecDb /\ [][NextDb]_vars

\* JobStateMachine called by one caller: transition and the read-only methods
SpecLookup == InitSpecLookup /\ [][NextLookup]_vars

SpecWk == InitSpecWk /\ [][NextWk]_vars

\* every worker keeps taking waiting messages and every handler keeps running
SpecFlow == InitSpecFlow /\ [][NextFlow]_vars /\ WF_vars(NextHandlers)

\* the workers of SpecFlow; a status write or an enqueue may fail on a first attempt
SpecRetry == InitSpecRetry /\ [][NextRetry]_vars /\ WF_vars(NextHandlers)

\* the tenant-aware client on a table without tenant_id column
SpecPlans == InitSpecPlans /\ [][NextPlans]_vars

\* operations interleaved on the event loop, each under its own tenant scopes
SpecCtx == InitSpecCtx /\ [][NextCtx]_vars

\* getters and closeAllQueues, interleaved at closeAllQueues' await
SpecQueues == InitSpecQueues /\ [][NextInstances]_vars

\* the workers' handlers and the test's afterAll: workers closed, then closeAllQueues
SpecShutdown == InitSpecShutdown /\ [][NextShutdown]_vars

----------------------------------------------------------------------------
(* Claims *)

Terminal == {"COMPLETED", "FAILED", "CANCELLED"}

\* caller c's UPDATE is applied in this step
Writes(c) ==
    /\ calls[c].pc = "update"
    /\ calls'[c].pc = "idle"
    /\ jobs[calls[c].jobId] # NoRow

\* C1: concurrent transition calls on one job are serialized: a status is only ever
\* written over the status it was computed from, never from a stale read.
C1_TransitionsSerialized ==
    [][\A c \in Callers :
          Writes(c) => jobs[calls[c].jobId].status = calls[c].currentState]_vars

\* C2: a job whose persisted status is COMPLETED, FAILED or CANCELLED keeps that
\* status in every later step, whatever transition calls interleave.
C2_TerminalPermanent ==
    [][\A j \in JobIds :
          jobs[j].status \in Terminal => jobs'[j].status = jobs[j].status]_vars

\* C3: a transition call on an existing job that read status `from`: when
\* getNextState(from, event) is null it throws JobStateError and the row is untouched;
\* otherwise it writes getNextState(from, event) as the status and returns it.
C3_TransitionResult ==
    [][/\ (ncalls' # ncalls /\ calls' = calls /\ jobs[returned'.jobId] # NoRow) =>
            /\ returned'.outcome = "JobStateError"
            /\ returned'.from = jobs[returned'.jobId].status
            /\ getNextState(returned'.from, returned'.event) = Null
            /\ jobs' = jobs
       /\ (ncalls' # ncalls /\ calls' # calls) =>
            \E c \in Callers :
               /\ calls[c].pc = "idle" /\ calls'[c].pc = "update"
               /\ calls'[c].currentState = jobs[calls'[c].jobId].status
               /\ getNextState(calls'[c].currentState, calls'[c].event) # Null
               /\ jobs' = jobs
       /\ \A c \in Callers : Writes(c) =>
            /\ returned'.outcome = "ok"
            /\ returned'.value = getNextState(calls[c].currentState, calls[c].event)
            /\ jobs'[calls[c].jobId].status = returned'.value]_vars

\* a call returned the status it wrote, the next state of the status it read
C3_Witness ==
    /\ returned.outcome = "ok"
    /\ returned.from = "REVIEWING"
    /\ returned.event = "REVIEW_REJECTED"
    /\ returned.value = "CODING"
    /\ jobs[returned.jobId].status = "CODING"

\* the 15 rows of the transition table of section 4.1
TransitionTable ==
    {<<"QUEUED", "START_PLANNING", "PLANNING">>,
     <<"QUEUED", "CANCEL", "CANCELLED">>,
     <<"QUEUED", "FAIL", "FAILED">>,
     <<"PLANNING", "PLAN_SUCCEEDED", "CODING">>,
     <<"PLANNING", "PLAN_FAILED", "FAILED">>,
     <<"PLANNING", "CANCEL", "CANCELLED">>,
     <<"CODING", "CODE_SUCCEEDED", "REVIEWING">>,
     <<"CODING", "CODE_FAILED", "FAILED">>,
     <<"CODING", "CANCEL", "CANCELLED">>,
     <<"REVIEWING", "REVIEW_APPROVED", "PR_OPEN">>,
     <<"REVIEWING", "REVIEW_REJECTED", "CODING">>,
     <<"REVIEWING", "REVIEW_FAILED", "FAILED">>,
     <<"REVIEWING", "CANCEL", "CANCELLED">>,
     <<"PR_OPEN", "PR_OPENED", "COMPLETED">>,
     <<"PR_OPEN", "PR_FAILED", "FAILED">>}

\* C4: getNextState(s, e) is the target of the table's row for (s, e), and null for
\* every pair that is no row of the table.
C4_NextStateIsTable ==
    pout.applied =>
        /\ \A row \in TransitionTable :
              (row[1] = pin.s /\ row[2] = pin.e) => pout.next = row[3]
        /\ (~\E row \in TransitionTable : row[1] = pin.s /\ row[2] = pin.e)
              => pout.next = Null
        /\ pin.e \in {"START_CODING", "START_REVIEWING", "MARK_COMPLETED"}
              => pout.next = Null
        /\ (pin.s = "PR_OPEN" /\ pin.e \in {"CANCEL", "FAIL"}) => pout.next = Null
        /\ (pin.e = "FAIL" /\ pin.s # "QUEUED") => pout.next = Null

\* a row of the table was looked up
C4_Witness ==
    /\ pout.applied
    /\ pin.s = "REVIEWING" /\ pin.e = "REVIEW_REJECTED"
    /\ pout.next = "CODING"

\* C5: for a terminal state s, VALID_TRANSITIONS[s] is empty, isValidTransition(s, t)
\* is false for every t and getNextState(s, e) is null for every e.
C5_TerminalHasNoTransition ==
    (pout.applied /\ pin.s \in Terminal) =>
        /\ pout.allowed = {}
        /\ pout.valid = FALSE
        /\ pout.next = Null

\* the predicates were applied to a terminal state with an event other states accept
C5_Witness ==
    /\ pout.applied
    /\ pin.s = "FAILED" /\ pin.e = "CANCEL" /\ pin.t = "QUEUED"
    /\ pout.next = Null /\ pout.valid = FALSE

\* a statement was run through the tenant-aware client in this step
StatementStep == last' # last \/ repos' # repos

\* the caller's own condition, if it gave one, holds of the row
CallerHolds(callerWhere, row) ==
    callerWhere.call = "cond" => Matches(Where(callerWhere.cond), row)

\* C6: a select through the tenant-aware client returns exactly the rows of the
\* current tenant that satisfy the caller's condition (the tenant predicate alone when
\* the caller gave none), so every returned row belongs to the current tenant.
C6_ReadsAreTenantScoped ==
    (last.op = "select" /\ last.outcome = "ok") =>
        /\ last.rows = {r \in repos :
                           r.tenantId = last.scope /\ CallerHolds(last.callerWhere, r)}
        /\ \A r \in last.rows : r.tenantId = last.scope

\* C7: every update and delete that reaches the database through the tenant-aware
\* client carries a WHERE clause containing tenant_id = current(), also when the
\* caller called no where() at all.
C7_WritesCarryTenantPredicate ==
    (last.op \in {"update", "delete"} /\ last.sqlSent) =>
        /\ last.where.has
        /\ \E i \in 1..Len(last.where.conj) :
              last.where.conj[i] = Eq("tenantId", last.scope)[1]

\* C8: an update or delete under scope A whose condition is id = i: when row i belongs
\* to another tenant the statement succeeds, returns no row and leaves the table as it
\* was; when row i belongs to A it changes (or removes) exactly that row.
C8_CrossTenantWriteIsNoOp ==
    [][\A r \in repos :
          (/\ StatementStep
           /\ last'.op \in {"update", "delete"}
           /\ last'.scope \in Tenants
           /\ last'.callerWhere = WhereCond(EqId(r.id)))
          => /\ last'.outcome = "ok"
             /\ IF r.tenantId # last'.scope
                THEN last'.rows = {} /\ repos' = repos
                ELSE IF last'.op = "update"
                THEN /\ last'.rows = {ApplySetObject(r, last'.set)}
                     /\ repos' = (repos \ {r}) \cup last'.rows
                ELSE /\ last'.rows = {r}
                     /\ repos' = repos \ {r}]_vars

\* under scope A an update aimed at tenant B's row returned nothing and the row is intact
C8_Witness ==
    /\ last.op = "update"
    /\ last.scope = "tenantA"
    /\ last.outcome = "ok"
    /\ last.set.enabled = "false"
    /\ last.rows = {}
    /\ \E r \in repos :
          /\ last.callerWhere = WhereCond(EqId(r.id))
          /\ r.tenantId = "tenantB"
          /\ r.enabled = "true"

\* C9: an insert through the tenant-aware client inside a tenant scope persists every
\* row (one object, or each element of an array) with tenant_id = the current tenant,
\* whatever tenantId the caller gave or left out.
C9_InsertOverridesTenant ==
    [][(StatementStep /\ last'.op = "insert" /\ last'.scope \in Tenants) =>
          /\ last'.outcome = "ok"
          /\ repos \subseteq repos'
          /\ Cardinality(repos' \ repos) = Len(last'.items)
          /\ \A r \in repos' \ repos : r.tenantId = last'.scope]_vars

\* an array insert under scope A, one element naming tenant B and one naming no
\* tenant, stored both rows for tenant A
C9_Witness ==
    /\ last.op = "insert"
    /\ last.scope = "tenantA"
    /\ last.isArray
    /\ Len(last.items) = 2
    /\ last.items[1].tenantId = "tenantB"
    /\ last.items[2].tenantId = NoValue
    /\ Cardinality(last.rows) = 2
    /\ last.rows \subseteq repos
    /\ \A r \in last.rows : r.tenantId = "tenantA"

\* C10: outside any tenant scope every select, insert, update and delete on the
\* multi-tenant table fails with TenantScopeError before SQL is sent, and no row is
\* read, inserted, changed or removed.
C10_NoScopeNoStatement ==
    [][(StatementStep /\ last'.scope = Undefined) =>
          /\ last'.outcome = "TenantScopeError"
          /\ ~last'.sqlSent
          /\ last'.rows = {}
          /\ repos' = repos]_vars

----------------------------------------------------------------------------
(* Claims on the workers and the queues *)

AgentSucceeds == agent.plan = "ok" /\ agent.code = "ok" /\ agent.review = "approve"

AgentRejects == agent.plan = "ok" /\ agent.code = "ok" /\ agent.review = "reject"

HappyPath == <<"QUEUED", "PLANNING", "CODING", "REVIEWING", "PR_OPEN", "COMPLETED">>

NextOnHappyPath(from, to) ==
    \E i \in 1..(Len(HappyPath) - 1) : HappyPath[i] = from /\ HappyPath[i + 1] = to

\* C11: with a job row in QUEUED, one message on the planning queue, an agent whose
\* plan, code and review succeed and approve, and neither cancellation nor crash,
\* the persisted status only ever moves one step along QUEUED, PLANNING, CODING,
\* REVIEWING, PR_OPEN, COMPLETED, and the job eventually is COMPLETED.
C11_HappyPath ==
    /\ [][AgentSucceeds =>
            \A j \in JobIds :
                jobs'[j].status # jobs[j].status =>
                    NextOnHappyPath(jobs[j].status, jobs'[j].status)]_vars
    /\ (AgentSucceeds ~> (\A j \in JobIds : jobs[j].status = "COMPLETED"))

C11_Witness ==
    /\ AgentSucceeds
    /\ \A j \in JobIds : jobs[j].status = "COMPLETED"
    /\ \A r \in Runs : runs[r].pc = "idle"
    /\ \E m \in queues["pr-open"] : m.state = "completed"

\* the state of the first stage whose agent operation raises ("": none raises)
FailingStage ==
    IF agent.plan = "throw" THEN "PLANNING"
    ELSE IF agent.code = "throw" THEN "CODING"
    ELSE IF agent.review = "throw" THEN "REVIEWING"
    ELSE ""

\* the queue after the failing stage's queue
QueueAfter(stage) ==
    CASE stage = "PLANNING"  -> "coding"
      [] stage = "CODING"    -> "reviewing"
      [] stage = "REVIEWING" -> "pr-open"

\* C12: when the agent operation of a stage raises, the job fails in that stage: once
\* the job is FAILED, metadata.failedAt is the stage's state, metadata.errorDetails is
\* a non-empty error summary, and nothing is on the next stage's queue.
C12_StageFailureRecorded ==
    \A j \in JobIds :
        (FailingStage # "" /\ jobs[j].status = "FAILED") =>
            /\ jobs[j].metadata.failedAt = FailingStage
            /\ jobs[j].metadata.errorDetails \notin {NoValue, Undefined, ""}
            /\ queues[QueueAfter(FailingStage)] = {}

\* C13: with an agent whose review always rejects, the job eventually is FAILED.
C13_RejectionLoopBounded ==
    AgentRejects ~> (\A j \in JobIds : jobs[j].status = "FAILED")

\* the reviewing handler has just sent the job back: status CODING, add on coding done
Rejected(j) ==
    /\ lastAdd.by = "reviewing"
    /\ lastAdd.queue = "coding"
    /\ lastAdd.jobId = j
    /\ jobs[j].status = "CODING"

\* C14: after a rejection the job is coded again: the message the reviewing handler
\* adds on the coding queue is delivered and the job reaches REVIEWING again.
C14_RejectedReentersCoding ==
    \A j \in JobIds : Rejected(j) ~> (jobs[j].status = "REVIEWING")

\* C15: the coding message the reviewing handler adds on a rejection carries the
\* attempts of the coding pass just reviewed, plus one.
C15_AttemptsIncrease ==
    (lastAdd.by = "reviewing" /\ lastAdd.queue = "coding") =>
        lastAdd.payload.attempts = lastAdd.from.pass + 1

\* C16: when createJob returns, the job row exists with status QUEUED and one message
\* with the job's id is on the planning queue.
C16_CreateJobInsertsRow ==
    [][(lastAdd'.by = "createJob" /\ lastAdd.by # "createJob") =>
            /\ jobs'[lastAdd'.jobId].status = "QUEUED"
            /\ \E m \in queues'["planning"] : m.id = lastAdd'.jobId]_vars

C18_TerminalJobAbandoned ==
    [][\A r \in Runs :
          (runs[r].sawTerminal /\ runs'[r] # runs[r]) =>
              (jobs' = jobs /\ lastAdd' = lastAdd)]_vars

\* C19: a handler invoked for a job whose status is CANCELLED does not call its
\* stage's operation and does not raise.
C19_CancelledJobDropped ==
    \A r \in Runs :
        runs[r].startStatus = "CANCELLED" =>
            (runs[r].pc # "stage" /\ runs[r].outcome # "throw")

\* C20: a second delivery of a stage message changes no outcome: with an agent that
\* succeeds and approves, and no cancellation, a job is never FAILED (one delivery
\* per stage ends in COMPLETED).
C20_RedeliveryIdempotent ==
    (AgentSucceeds /\ ncalls = 0) =>
        \A j \in JobIds : jobs[j].status # "FAILED"

----------------------------------------------------------------------------
(* Claims C21-C30 *)

\* C21: a status write or an enqueue that fails on a message's first attempt is made
\* good by the retry: with an agent that succeeds and approves, the job still
\* eventually is COMPLETED.
C21_TransientErrorRecovered ==
    AgentSucceeds ~> (\A j \in JobIds : jobs[j].status = "COMPLETED")

EventOwner(event) ==
    CASE event \in {"START_PLANNING", "PLAN_SUCCEEDED", "PLAN_FAILED"} -> "planning"
      [] event \in {"CODE_SUCCEEDED", "CODE_FAILED"}                   -> "coding"
      [] event \in {"REVIEW_APPROVED", "REVIEW_REJECTED", "REVIEW_FAILED"} -> "reviewing"
      [] event \in {"PR_OPENED", "PR_FAILED"}                          -> "pr-open"
      [] OTHER                                                         -> ""

\* C23: each event is fired by its own worker only; the planning handler alone has
\* fired an event (START_PLANNING) when its stage's operation is awaited, the coding,
\* reviewing and pr-open handlers have fired none; and every write of a job's status
\* is the update of a transition fired by the event's owner.
C23_OneWorkerPerTransition ==
    /\ [](\A r \in Runs : runs[r].pc # "idle" =>
            /\ runs[r].event # "" => EventOwner(runs[r].event) = runs[r].queue
            /\ runs[r].event = "START_PLANNING" => runs[r].phase = "try"
            /\ runs[r].pc = "stage" =>
                  runs[r].event = IF runs[r].queue = "planning" THEN "START_PLANNING"
                                                                ELSE "")
    /\ [][jobs' # jobs =>
            \E r \in Runs :
                /\ runs[r].pc = "update"
                /\ runs'[r] # runs[r]
                /\ EventOwner(runs[r].event) = runs[r].queue]_vars

\* the reviewing worker is writing REVIEW_FAILED while the job is in REVIEWING
C23_Witness ==
    \E r \in Runs :
        /\ runs[r].queue = "reviewing"
        /\ runs[r].pc = "update"
        /\ runs[r].event = "REVIEW_FAILED"
        /\ jobs[runs[r].jobId].status = "REVIEWING"

\* the innermost tenant id an operation bound
OwnTenant(o) == ops[o].scope[Len(ops[o].scope)]

\* C24: whatever the interleaving of operations, a running operation sees the scopes
\* it bound itself: getCurrentTenantId() returns its own innermost tenant id, after
\* every suspension and resumption and while other operations hold other scopes.
C24_ScopeFollowsOperation ==
    \A o \in Ops :
        ops[o].pc = "running" =>
            /\ hasTenantContext
            /\ getCurrentTenantContext.thrown = ""
            /\ getCurrentTenantId = OwnTenant(o)
            /\ store = ops[o].scope

\* an operation resumed under its scope while another is suspended under another
C24_Witness ==
    \E o1, o2 \in Ops :
        /\ ops[o1].pc = "running"
        /\ ops[o1].resumed
        /\ ops[o2].pc = "suspended"
        /\ OwnTenant(o1) # ops[o2].context[Len(ops[o2].context)]

\* C25: runWithTenantContext returns what fn returned or throws what fn threw, and
\* puts the enclosing scope back either way: with no operation running no scope is
\* bound, hasTenantContext() is false and the getters throw TenantContextError;
\* inside a nested call the inner scope is bound, after it the outer one again.
C25_ScopeReleasedOnExit ==
    /\ [](store = <<>> =>
            /\ ~hasTenantContext
            /\ getCurrentTenantContext.thrown = "TenantContextError")
    /\ [](NoOpRunning => store = <<>>)
    /\ [](\A o \in Ops : ops[o].pc = "running" => getStore = OwnTenant(o))
    /\ [][\A o \in Ops :
            (ops[o].pc = "running" /\ Len(ops'[o].scope) < Len(ops[o].scope)) =>
                /\ ops'[o].runEnd = ops'[o].fnEnd
                /\ ops'[o].fnEnd \in FnEnds
                /\ store' = SubSeq(ops[o].scope, 1, Len(ops[o].scope) - 1)]_vars

\* a nested call has ended by failure and the outer scope is bound again
C25_Witness ==
    \E o \in Ops :
        /\ ops[o].pc = "running"
        /\ ops[o].runEnd.outcome = "throw"
        /\ Len(ops[o].scope) = 1
        /\ getStore = ops[o].scope[1]

\* C26: verifyTenantOwnership returns for a null or undefined row, in or out of a
\* scope; for a row it throws TenantScopeError outside any scope, returns when the
\* row's tenantId is the scope's and throws TenantAccessDeniedError when it is not;
\* the call changes nothing.
C26_OwnershipCheck ==
    /\ [](verified.outcome # "none" =>
            verified.outcome =
                IF verified.entity.isNull THEN "ok"
                ELSE IF verified.scope = Undefined THEN "TenantScopeError"
                ELSE IF verified.entity.tenantId = verified.scope THEN "ok"
                ELSE "TenantAccessDeniedError")
    /\ [][verified' # verified =>
            UNCHANGED <<dbVars, smVars, pureVars, wkVars, ops, instances>>]_vars

\* a row of another tenant was refused inside a running operation's scope
C26_Witness ==
    /\ verified.outcome = "TenantAccessDeniedError"
    /\ \E o \in Ops : ops[o].pc = "running" /\ OwnTenant(o) = verified.scope

\* C30: when closeAllQueues returns, the four slots are null and every Queue made so
\* far is closed; a getter called after that returns an instance that is not closed.
C30_CloseAllQueuesResets ==
    /\ [][(instances.closer.pc = "closing" /\ instances'.closer.ended = "return") =>
            /\ \A q \in QUEUE_NAMES : instances'.slot[q] = NoInstance
            /\ \A i \in 1..instances'.made : i \in instances'.closed]_vars
    /\ [][(instances.closer = [IdleCloser EXCEPT !.ended = "return"]
            /\ instances'.got # instances.got) =>
                ~instances'.got.wasClosed]_vars

\* the WHERE clause the raw client sends for the caller's chain
RawClientWhere(callerWhere) ==
    IF callerWhere.call = "cond" THEN Where(callerWhere.cond) ELSE NoWhere

\* C27: a statement on the plans table made through the tenant-aware client is the
\* raw client's statement, inside a scope or outside: it is sent and not refused, its
\* WHERE clause is the caller's alone, inserted rows get no tenantId, and its rows
\* and its effect on the table are those of the raw statement.
C27_PlansPassThrough ==
    [][(last'.table = "plans" /\ (last' # last \/ plans' # plans)) =>
          LET st  == last'
              hit == {r \in plans : Matches(RawClientWhere(st.callerWhere), r)}
          IN  /\ st.outcome = "ok"
              /\ st.sqlSent
              /\ st.where = RawClientWhere(st.callerWhere)
              /\ \A r \in st.rows : r.tenantId = NoValue
              /\ repos' = repos
              /\ store' = store
              /\ CASE st.op = "select" -> plans' = plans /\ st.rows = hit
                   [] st.op = "delete" -> plans' = plans \ hit /\ st.rows = hit
                   [] st.op = "update" ->
                        /\ st.rows = {ApplySetObject(r, st.set) : r \in hit}
                        /\ plans' = (plans \ hit) \cup st.rows
                   [] st.op = "insert" ->
                        /\ plans' = plans \cup st.rows
                        /\ Cardinality(st.rows) = Len(st.items)
                        /\ st.rows \cap plans = {}]_vars

\* inside a tenant scope, a delete without where() removed both rows of plans
C27_Witness ==
    /\ last.table = "plans"
    /\ last.op = "delete"
    /\ last.callerWhere.call = "none"
    /\ last.scope # Undefined
    /\ Cardinality(last.rows) = 2
    /\ plans = {}

\* C28: a transition that writes with non-empty errorDetails sets metadata to the
\* row's metadata before the write with errorDetails set and failedAt set to the
\* status before the write, every other key kept; a transition that writes without
\* errorDetails leaves metadata as it was.
C28_MetadataFrame ==
    [][\A c \in Callers :
          Writes(c) =>
              LET old == jobs[calls[c].jobId]
                  new == jobs'[calls[c].jobId]
              IN  IF Truthy(calls[c].errorDetails)
                  THEN new.metadata = [old.metadata EXCEPT
                                          !.errorDetails = calls[c].errorDetails,
                                          !.failedAt = old.status]
                  ELSE new.metadata = old.metadata]_vars

\* a call of transition, getCurrentState, getJob or canTransition ends in this step
CallEnds ==
    /\ returned' # returned
    /\ returned'.method = "transition" => ncalls' # ncalls

\* C29: transition, getCurrentState, getJob and canTransition, called for an id
\* without a row, throw JobStateError (not found), and the jobs table is unchanged.
C29_MissingJobNotFound ==
    [][(CallEnds /\ jobs[returned'.jobId] = NoRow) =>
          /\ returned'.outcome = "JobStateError"
          /\ returned'.message = "not found"
          /\ jobs' = jobs]_vars

\* canTransition was called for an id without a row
C29_Witness ==
    /\ returned.method = "canTransition"
    /\ returned.message = "not found"
    /\ jobs[returned.jobId] = NoRow

----------------------------------------------------------------------------
(* Claims C31-C40 *)

\* C38: the two tables agree: the non-null values of getNextState(s, e) over all
\* events e are VALID_TRANSITIONS[s]; so isValidTransition(s, getNextState(s, e))
\* holds whenever getNextState(s, e) is not null, and the checks of transition never
\* end in "Invalid transition".
C38_TablesAgree ==
    pout.applied =>
        /\ {getNextState(pin.s, e) : e \in JobEvent} \ {Null} = pout.allowed
        /\ pout.next # Null => isValidTransition(pin.s, pout.next)
        /\ pout.next # Null => pout.next \in pout.allowed
        /\ NextStateOrThrow(pin.s, pin.e).message # "Invalid transition"
        /\ pout.valid <=> \E e \in JobEvent : getNextState(pin.s, e) = pin.t

\* both tables were read for REVIEWING and REVIEW_REJECTED
C38_Witness ==
    /\ pout.applied
    /\ pin.s = "REVIEWING" /\ pin.e = "REVIEW_REJECTED" /\ pin.t = "CODING"
    /\ pout.next = "CODING"
    /\ pout.valid
    /\ pout.allowed = {"CODING", "PR_OPEN", "FAILED", "CANCELLED"}

\* the order QUEUED < PLANNING < CODING < REVIEWING < PR_OPEN < terminal states
Rank(status) ==
    CASE status = "QUEUED"    -> 1
      [] status = "PLANNING"  -> 2
      [] status = "CODING"    -> 3
      [] status = "REVIEWING" -> 4
      [] status = "PR_OPEN"   -> 5
      [] OTHER                -> 6

\* C39: whenever the status of a job changes it moves forward in the order, or from
\* REVIEWING back to CODING; QUEUED is never entered again and PLANNING is entered
\* from QUEUED only; every non-terminal state has an event leading to FAILED.
C39_StatusMovesForward ==
    /\ [][\A j \in JobIds :
            (jobs[j] # NoRow /\ jobs'[j].status # jobs[j].status) =>
                /\ \/ Rank(jobs'[j].status) > Rank(jobs[j].status)
                   \/ jobs[j].status = "REVIEWING" /\ jobs'[j].status = "CODING"
                /\ jobs'[j].status # "QUEUED"
                /\ jobs'[j].status = "PLANNING" => jobs[j].status = "QUEUED"]_vars
    /\ [](\A st \in JobState \ Terminal :
            \E e \in JobEvent : getNextState(st, e) = "FAILED")

\* the rows of the repositories table a tenant owns
OwnedBy(rows, tenant) == {r \in rows : r.tenantId = tenant}

\* C37: an update with a where() condition under scope A produces only rows of
\* tenant A, whatever tenantId the caller gave in set(), and leaves the rows owned by
\* every other tenant as they were.
C37_UpdateKeepsTenant ==
    [][(/\ StatementStep
        /\ last'.op = "update"
        /\ last'.scope \in Tenants
        /\ last'.callerWhere.call = "cond") =>
            /\ \A r \in last'.rows : r.tenantId = last'.scope
            /\ \A t \in Tenants \ {last'.scope} :
                  OwnedBy(repos', t) = OwnedBy(repos, t)]_vars

\* the state a stage's handler expects its job in
EntryState(queue) ==
    CASE queue = "planning"  -> "QUEUED"
      [] queue = "coding"    -> "CODING"
      [] queue = "reviewing" -> "REVIEWING"
      [] queue = "pr-open"   -> "PR_OPEN"

\* C33: a coding, reviewing or pr-open handler starts on a job whose persisted status
\* is the stage's entry state (CODING, REVIEWING, PR_OPEN) or a terminal state.
C33_EnteredInEntryState ==
    \A r \in Runs :
        (runs[r].pc # "idle" /\ runs[r].queue # "planning") =>
            runs[r].startStatus \in {EntryState(runs[r].queue)} \cup Terminal

\* a message of the job is waiting or being processed on the queue
Pending(queue, j) ==
    \E m \in queues[queue] : m.jobId = j /\ m.state \in {"waiting", "active"}

\* C34: a job whose status is CODING, REVIEWING or PR_OPEN has a message pending on
\* that stage's queue, or a handler in flight for it.
C34_NoOrphan ==
    \A j \in JobIds : \A q \in QUEUE_NAMES \ {"planning"} :
        jobs[j].status = EntryState(q) =>
            \/ Pending(q, j)
            \/ \E r \in Runs : runs[r].pc # "idle" /\ runs[r].jobId = j

\* a handler of the given worker is writing the given event's transition
Writing(queue, event) ==
    \E r \in Runs :
        /\ runs[r].queue = queue
        /\ runs[r].event = event
        /\ runs[r].pc = "update"
        /\ runs'[r] # runs[r]

\* C35: a job is PR_OPEN or COMPLETED, or has a message on the pr-open queue, only if
\* its review returned approved; PR_OPEN is written by the reviewing handler's
\* REVIEW_APPROVED only, COMPLETED by the pr-open handler's PR_OPENED from PR_OPEN only.
C35_PrOpenOnlyAfterApproval ==
    /\ [](\A j \in JobIds :
            (jobs[j].status \in {"PR_OPEN", "COMPLETED"} \/ queues["pr-open"] # {}) =>
                agent.review = "approve")
    /\ [][\A j \in JobIds :
            jobs'[j].status # jobs[j].status =>
                /\ jobs'[j].status = "PR_OPEN" =>
                      (jobs[j].status = "REVIEWING" /\ Writing("reviewing", "REVIEW_APPROVED"))
                /\ jobs'[j].status = "COMPLETED" =>
                      (jobs[j].status = "PR_OPEN" /\ Writing("pr-open", "PR_OPENED"))]_vars

\* after an approved review the job is PR_OPEN and its message waits on pr-open
C35_Witness ==
    /\ agent.review = "approve"
    /\ \E j \in JobIds :
          /\ jobs[j].status = "PR_OPEN"
          /\ \E m \in queues["pr-open"] : m.jobId = j /\ m.state = "waiting"

\* C36: a job's metadata holds failedAt and errorDetails exactly when its status is
\* FAILED, and failedAt then is one of PLANNING, CODING, REVIEWING, PR_OPEN.
C36_FailureMetadataIffFailed ==
    \A j \in JobIds :
        LET metadata == jobs[j].metadata
            recorded == metadata.failedAt # NoValue /\ metadata.errorDetails # NoValue
        IN  /\ recorded <=> jobs[j].status = "FAILED"
            /\ recorded => metadata.failedAt \in {"PLANNING", "CODING", "REVIEWING", "PR_OPEN"}

\* a step of a getter or of getQueue (closeAllQueues' steps change closer)
GetterStep == instances' # instances /\ instances'.closer = instances.closer

\* C32: no Queue exists before the first getter call; a getter fills a null slot with
\* a new Queue and returns the slot, an occupied slot is returned as it is and nothing
\* is made; getQueue(name) does this for the four stage names and throws for any
\* other name, making nothing.
C32_LazySingletons ==
    /\ [](instances.got = NoGet => instances.made = 0)
    /\ [][GetterStep =>
            LET got == instances'.got
            IN  IF got.name \in QUEUE_NAMES
                THEN /\ got.error = "none"
                     /\ got.instance = instances'.slot[got.name]
                     /\ got.instance # NoInstance
                     /\ \A q \in QUEUE_NAMES \ {got.name} :
                            instances'.slot[q] = instances.slot[q]
                     /\ IF instances.slot[got.name] = NoInstance
                        THEN /\ instances'.made = instances.made + 1
                             /\ got.instance = instances'.made
                        ELSE /\ instances'.made = instances.made
                             /\ got.instance = instances.slot[got.name]
                ELSE /\ got.error = "Unknown queue"
                     /\ got.instance = NoInstance
                     /\ instances'.made = instances.made
                     /\ instances'.slot = instances.slot]_vars

\* the first Queue made is returned again after a second one was made
C32_Witness ==
    /\ instances.got.instance = 1
    /\ instances.made >= 2
    /\ instances.slot[instances.got.name] = 1
    /\ ~instances.got.wasClosed

\* C40: when closeAllQueues returns, every Queue made so far is closed or held in a
\* slot, and no slot holds a closed Queue, also when getters ran during its await.
C40_NothingLostAcrossClose ==
    [][(instances.closer.pc = "closing" /\ instances'.closer.ended = "return") =>
          /\ \A i \in 1..instances'.made :
                 i \in instances'.closed \/ \E q \in QUEUE_NAMES : instances'.slot[q] = i
          /\ \A q \in QUEUE_NAMES :
                 instances'.slot[q] # NoInstance => instances'.slot[q] \notin instances'.closed]_vars

====
